---- MODULE Spec2Model ----
(***************************************************************************)
(* MoiCedrus 1.4: the measurement pipeline of src/MoiCedrus_1.4.py.        *)
(*                                                                         *)
(* The serial reader thread puts events on reader_q, the processor thread  *)
(* turns cumulative readings into ring widths held in a VROState, the key  *)
(* handlers of the UI pause, undo, edit the start year and save, and the   *)
(* Tucson encoder writes the widths as fixed-width rows.                   *)
(*                                                                         *)
(* Text is a sequence of one-character strings, so that formatting         *)
(* (f"{x:6d}"), str.split and int() are computed character by character.   *)
(* A reading is an integer count of 0.0001 mm (one decimal more than the   *)
(* 0.001 mm the program keeps), so that round() has something to round.    *)
(* Python's None is the empty sequence, a present value v is <<v>>.        *)
(***************************************************************************)
EXTENDS Integers, Sequences, FiniteSets, TLC

VARIABLES
    \* VROState (lines 336-356)
    waiting_reference, last_cumulative, measurements, paused, anio_inicio,
    codigo, year_counter, next_sound_year,
    \* threading.Event and queue.Queue of main (lines 786-788), and whether
    \* app.run() of main is still running (line 807)
    stop_event, app_running, reader_q,
    \* position of the two worker threads, and of the refresher thread of
    \* build_app (line 761)
    reader_pc, proc_pc, refresher_pc,
    \* ser of lector_serial_worker: the serial port (line 304)
    ser,
    \* build_app: the year-entry mode of the UI (line 592)
    awaiting_year,
    \* what escribir_tucson last wrote, what the refresher last rendered
    file, preview,
    \* history variables (not program state)
    h_out, h_nfired, h_lastfired, h_alerts, h_clean, h_run, h_redo, h_pz, h_cmd,
    \* processor_worker inside the branch of a measurement (lines 397-434) and
    \* a key handler between its statements: where each stands, and its locals
    proc_frame, key_frame,
    \* history variable: the state a reading and a command started from, and
    \* the alerts since
    h_race,
    \* history variable: the first reference, while nothing was undone and no
    \* reading fell below the baseline
    h_sum,
    \* history variable: play_beep raised in the reading just handled
    \* ("failed"), no measurement was taken since ("since"), or the reading
    \* just handled gave the first measurement after it ("next")
    h_beep,
    \* VROState.logs (line 346), the calls of append_log under way in the
    \* processor and in a key handler, and the log text on the screen (line
    \* 752).  The log is followed in SpecLog; the other specifications leave
    \* it as main left it.
    logs, log_frame, logs_text

vars == << waiting_reference, last_cumulative, measurements, paused, anio_inicio,
           codigo, year_counter, next_sound_year, stop_event, app_running, reader_q,
           reader_pc, proc_pc, refresher_pc, ser, awaiting_year, file, preview,
           h_out, h_nfired, h_lastfired, h_alerts, h_clean, h_run, h_redo, h_pz,
           h_cmd, proc_frame, key_frame, h_race, h_sum,
           h_beep, logs, log_frame, logs_text >>

logVars == << logs, log_frame, logs_text >>

raceVars == << proc_frame, key_frame, h_race >>

engineVars == << waiting_reference, last_cumulative, measurements, paused,
                 year_counter >>

histVars == << h_out, h_nfired, h_lastfired, h_alerts, h_clean, h_run, h_redo, h_pz >>

-----------------------------------------------------------------------------
(* Bounds of the model and the inputs drawn from them.                      *)

MaxQueue == 1
MaxMeas == 2
MaxMeasThr == 14
MaxBuf == 1
MaxEncLen == 21
MaxPreview == 4
MaxRaceMeas == 3
MaxLogRoom == 2

\* Readings in 0.0001 mm: 0.0005, 0.0015, 0.0025 and 0.0034 mm.
RawReadings == {5, 15, 25, 34}
\* Two readings only: every width is the same and long series stay small.
ThrReadings == {10, 20}
StartYears == {7, 10}
DigitKeys == {"2"}

None == << >>
Some(v) == << v >>
Val(o) == o[1]

-----------------------------------------------------------------------------
(* Numbers and text.                                                        *)

Min(a, b) == IF a < b THEN a ELSE b
Max(a, b) == IF a > b THEN a ELSE b

\* round(x) of Python 3 for x = raw / 10: to nearest, ties to the even integer.
\* (mm_val * 1000 is a float product; for the readings drawn below it is the
\* exact value, 0.5, 1.5, 2.5, 3.4, 1.0 and 2.0.)
PyRound10(raw) ==
    LET q == raw \div 10
        r == raw % 10
    IN  IF r < 5 THEN q
        ELSE IF r > 5 THEN q + 1
        ELSE IF q % 2 = 0 THEN q ELSE q + 1

\* current_mil = int(round(mm_val * 1000))
CurrentMil(raw) == PyRound10(raw)

DigitChars == << "0", "1", "2", "3", "4", "5", "6", "7", "8", "9" >>

RECURSIVE NatStr(_)
NatStr(n) == IF n < 10 THEN << DigitChars[n + 1] >>
             ELSE NatStr(n \div 10) \o << DigitChars[(n % 10) + 1] >>

\* str(n)
IntStr(n) == IF n < 0 THEN << "-" >> \o NatStr(-n) ELSE NatStr(n)

Spaces(k) == IF k <= 0 THEN << >> ELSE [i \in 1..k |-> " "]

\* f"{n:wd}": right-justified in at least w columns
FmtD(n, w) == LET s == IntStr(n) IN Spaces(w - Len(s)) \o s

\* f"{s:ws}" and f"{s:<ws}": left-justified in at least w columns
FmtS(s, w) == s \o Spaces(w - Len(s))

\* s[:k]
Prefix(s, k) == SubSeq(s, 1, Min(k, Len(s)))

\* s.rstrip()
RECURSIVE RStrip(_)
RStrip(s) == IF s # << >> /\ s[Len(s)] = " " THEN RStrip(SubSeq(s, 1, Len(s) - 1))
             ELSE s

\* s.split(): the maximal runs of non-blank characters, in order
TokStarts(s) == {i \in 1..Len(s) : s[i] # " " /\ (i = 1 \/ s[i - 1] = " ")}

TokEnd(s, i) ==
    CHOOSE j \in i..Len(s) :
        /\ \A k \in i..j : s[k] # " "
        /\ j = Len(s) \/ s[j + 1] = " "

Split(s) ==
    LET st == TokStarts(s)
    IN  [n \in 1..Cardinality(st) |->
            LET i == CHOOSE i \in st : Cardinality({k \in st : k < i}) = n - 1
            IN  SubSeq(s, i, TokEnd(s, i))]

DigitVal(c) == CHOOSE d \in 0..9 : DigitChars[d + 1] = c

IsDigit(c) == \E d \in 1..10 : DigitChars[d] = c

RECURSIVE NatVal(_)
NatVal(s) == IF s = << >> THEN 0
             ELSE 10 * NatVal(SubSeq(s, 1, Len(s) - 1)) + DigitVal(s[Len(s)])

\* whether int(tok) returns (it raises ValueError otherwise)
IsIntText(tok) ==
    LET body == IF tok # << >> /\ tok[1] \in {"-", "+"} THEN Tail(tok) ELSE tok
    IN  body # << >> /\ \A i \in 1..Len(body) : IsDigit(body[i])

\* int(tok), for a tok with IsIntText(tok)
IntVal(tok) ==
    IF tok[1] = "-" THEN -NatVal(Tail(tok))
    ELSE IF tok[1] = "+" THEN NatVal(Tail(tok))
    ELSE NatVal(tok)

-----------------------------------------------------------------------------
(* Line parser: parsear_valor_linea, RE_FLOAT = [-+]?[0-9]*\.?[0-9]+ .       *)

\* s.strip()
RECURSIVE LStrip(_)
LStrip(s) == IF s # << >> /\ s[1] = " " THEN LStrip(Tail(s)) ELSE s

Strip(s) == LStrip(RStrip(s))

\* the number of digits that stand in a row from position j on
DigitsRun(s, j) ==
    Cardinality({m \in j..Len(s) : \A t \in j..m : IsDigit(s[t])})

\* [0-9]*\.?[0-9]+ tried at position j: the position of the last character
\* matched, or 0.  The digits are taken greedily; a point is taken when a
\* digit follows it, and given back otherwise.
BodyEnd(s, j) ==
    LET k == DigitsRun(s, j)
        dot == j + k
    IN  IF dot <= Len(s) /\ s[dot] = "." /\ DigitsRun(s, dot + 1) > 0
        THEN dot + DigitsRun(s, dot + 1)
        ELSE IF k > 0 THEN j + k - 1
        ELSE 0

\* the whole pattern tried at position i
MatchEnd(s, i) ==
    IF s[i] \in {"-", "+"} THEN (IF i < Len(s) THEN BodyEnd(s, i + 1) ELSE 0)
    ELSE BodyEnd(s, i)

\* RE_FLOAT.search(linea).group(): the leftmost match, or None
ReFloatSearch(s) ==
    LET starts == {i \in 1..Len(s) : MatchEnd(s, i) > 0}
    IN  IF starts = {} THEN None
        ELSE LET i == CHOOSE i \in starts : \A k \in starts : i <= k
             IN  Some(SubSeq(s, i, MatchEnd(s, i)))

\* float(text) in units of 0.0001 mm, for a text with at most four decimals
FloatVal(text) ==
    LET neg == text[1] = "-"
        body == IF text[1] \in {"-", "+"} THEN Tail(text) ELSE text
        k == DigitsRun(body, 1)
        frac == IF k < Len(body) THEN SubSeq(body, k + 2, Len(body)) ELSE << >>
        frac4 == SubSeq(frac \o << "0", "0", "0", "0" >>, 1, 4)
        mag == NatVal(SubSeq(body, 1, k)) * 10000 + NatVal(frac4)
    IN  IF neg THEN -mag ELSE mag

\* parsear_valor_linea(linea): None for an empty line and for a line in which
\* the pattern is not found.  float() accepts every text the pattern matches.
ParsearValorLinea(linea) ==
    IF linea = << >> THEN None
    ELSE LET m == ReFloatSearch(linea)
         IN  IF m = None THEN None ELSE Some(FloatVal(Val(m)))

-----------------------------------------------------------------------------
(* Tucson encoder: escribir_tucson and format_preview_lines.  A line is     *)
(* kept with the year and the values it was built from beside its text:     *)
(* [anio, vals, text].                                                      *)

Sentinel == -9999
PREVIEW_MAX_LINES == 2000

\* "".join(f"{v:6d}" for v in vals)
RECURSIVE ValsText(_)
ValsText(vals) == IF vals = << >> THEN << >>
                  ELSE FmtD(Head(vals), 6) \o ValsText(Tail(vals))

\* fila = f"{codigo:8s}{fila_anio:4d}" followed by f"{v:6d}" for each value
TucsonLine(code, anio, vals) ==
    [anio |-> anio, vals |-> vals,
     text |-> FmtS(code, 8) \o FmtD(anio, 4) \o ValsText(vals)]

\* Mutant: the years gone by in the decade, not the years left.
FirstBlockGone(anio) == LET rem == anio % 10 IN IF rem # 0 THEN rem ELSE 10

\* first_block: the years left in the decade of anio_inicio
FirstBlock(anio) == LET rem == anio % 10 IN IF rem # 0 THEN 10 - rem ELSE 10

\* while idx < n: rows of up to 10 values, each at year anio_inicio + idx
RECURSIVE TenBlocks(_, _, _, _)
TenBlocks(code, anio, meds, idx) ==
    IF idx < Len(meds)
    THEN LET take == Min(10, Len(meds) - idx)
         IN  << TucsonLine(code, anio + idx, SubSeq(meds, idx + 1, idx + take)) >>
             \o TenBlocks(code, anio, meds, idx + take)
    ELSE << >>

\* Mutant: no short first row, rows of 10 from anio_inicio on.
TucsonDataLinesFlat(code, anio, meds) == TenBlocks(code, anio, meds, 0)

\* the rows of values of escribir_tucson: a short first row when anio_inicio
\* is not a multiple of 10, then the rows of 10
TucsonDataLines(code, anio, meds) ==
    LET fb == FirstBlock(anio)
        take == IF fb < 10 THEN Min(fb, Len(meds)) ELSE 0
    IN  IF take > 0
        THEN << TucsonLine(code, anio, SubSeq(meds, 1, take)) >>
             \o TenBlocks(code, anio, meds, take)
        ELSE TenBlocks(code, anio, meds, 0)

\* The sentinel: alone on the line of anio_inicio when there are no values;
\* else the values of the last line are counted as its blank-separated
\* tokens less two, and the sentinel goes on a new line, ten years after the
\* year read back from the second token, when that count is 10 or more, and
\* at the end of the last line otherwise.  ok is FALSE when int() raises.
WithSentinel(code, anio, lines, n) ==
    IF n = 0 THEN [ok |-> TRUE, lines |-> << TucsonLine(code, anio, << Sentinel >>) >>]
    ELSE LET last == lines[Len(lines)]
             last_tokens == Split(last.text)
             num_vals_last_line == Max(0, Len(last_tokens) - 2)
         IN  IF num_vals_last_line >= 10
             THEN IF IsIntText(last_tokens[2])
                  THEN [ok |-> TRUE,
                        lines |-> Append(lines, TucsonLine(code,
                                      IntVal(last_tokens[2]) + 10, << Sentinel >>))]
                  ELSE [ok |-> FALSE, lines |-> << >>]
             ELSE [ok |-> TRUE,
                   lines |-> [lines EXCEPT ![Len(lines)] =
                                 [anio |-> last.anio,
                                  vals |-> Append(last.vals, Sentinel),
                                  text |-> last.text \o FmtD(Sentinel, 6)]]]

\* f.write(ln.rstrip() + "\n") for each line
Written(lines) == [i \in 1..Len(lines) |-> [lines[i] EXCEPT !.text = RStrip(@)]]

\* escribir_tucson(codigo, anio_inicio, mediciones, ruta): the lines written,
\* or ok = FALSE when it raises (before the file is opened)
EscribirTucson(code, anio, meds) ==
    LET c == Prefix(code, 8)
        r == WithSentinel(c, anio, TucsonDataLines(c, anio, meds), Len(meds))
    IN  [ok |-> r.ok, lines |-> Written(r.lines)]

\* while idx < n of format_preview_lines: rows of up to 10 values, each at
\* current_decade_start, which advances by 10
RECURSIVE PreviewBlocks(_, _, _, _)
PreviewBlocks(code, decade, measures, idx) ==
    IF idx < Len(measures)
    THEN LET vals == SubSeq(measures, idx + 1, Min(idx + 10, Len(measures)))
         IN  << TucsonLine(code, decade, vals) >>
             \o PreviewBlocks(code, decade + 10, measures, idx + Len(vals))
    ELSE << >>

\* the rows of values of format_preview_lines
PreviewDataLines(code, anio, measures) ==
    LET next_decade == ((anio \div 10) + 1) * 10
        fbl == IF next_decade - anio <= 0 THEN 10 ELSE next_decade - anio
        take == Min(fbl, Len(measures))
    IN  IF 0 < Len(measures)
        THEN << TucsonLine(code, anio, SubSeq(measures, 1, take)) >>
             \o PreviewBlocks(code, next_decade, measures, take)
        ELSE << >>

\* Mutant: the first max_lines lines.
LastLinesHead(lines, k) ==
    IF k = 0 \/ Len(lines) <= k THEN lines
    ELSE SubSeq(lines, 1, k)

\* lines[-max_lines:] for max_lines >= 0: the last max_lines lines, and the
\* whole list for 0, since -0 is 0 and lines[0:] is the whole list
LastLines(lines, k) ==
    IF k = 0 \/ Len(lines) <= k THEN lines
    ELSE SubSeq(lines, Len(lines) - k + 1, Len(lines))

\* format_preview_lines(codigo, anio_inicio, measures, max_lines): codigo_fmt
\* is the code cut and padded to 8 columns; the sentinel is placed by the
\* same steps as in escribir_tucson
FormatPreviewLines(code, anio, measures, max_lines) ==
    LET codigo_fmt == FmtS(Prefix(code, 8), 8)
        r == WithSentinel(codigo_fmt, anio,
                          PreviewDataLines(codigo_fmt, anio, measures), Len(measures))
    IN  [ok |-> r.ok, lines |-> LastLines(r.lines, max_lines)]

-----------------------------------------------------------------------------
(* Threshold tracker.                                                       *)

auto_ref_mode == TRUE
sound_enabled == TRUE
sound_step == 10

\* update_next_sound_year: the next multiple of the step above the last
\* measured year, or above anio_inicio when nothing is measured.  The values
\* are integers, so the except branch that would leave None is never taken.
UpdateNextSoundYear(anio, n) ==
    LET step == IF sound_step <= 0 THEN 10 ELSE sound_step
    IN  IF n > 0
        THEN (((anio + n - 1) \div step) + 1) * step
        ELSE ((anio \div step) + 1) * step

\* Mutant: the loop compares with > and beeps a year late.
RECURSIVE BeepLoopLate(_, _, _)
BeepLoopLate(year_measured, nsy, fired) ==
    IF year_measured > nsy
    THEN BeepLoopLate(year_measured, nsy + sound_step, Append(fired, nsy))
    ELSE [next |-> nsy, fired |-> fired]

\* The while loop of processor_worker: one beep and one step forward for each
\* threshold the measured year has reached.  The result is the threshold
\* left and the years that beeped, in order.
RECURSIVE BeepLoop(_, _, _)
BeepLoop(year_measured, nsy, fired) ==
    IF year_measured >= nsy
    THEN BeepLoop(year_measured, nsy + sound_step, Append(fired, nsy))
    ELSE [next |-> nsy, fired |-> fired]

\* Mutant: one beep when the threshold is reached, the threshold not advanced.
SoundCheckNoAdvance(year_measured, nsy) ==
    [next |-> nsy, fired |-> IF year_measured >= nsy THEN << nsy >> ELSE << >>]

\* The sound check after a measurement (sound_enabled is never switched off).
SoundCheck(year_measured, nsy) ==
    IF sound_enabled THEN BeepLoop(year_measured, nsy, << >>)
    ELSE [next |-> nsy, fired |-> << >>]

-----------------------------------------------------------------------------
(* Calibration and delta engine: what one "reading" event does to VROState. *)

Delta(current_mil, base) == current_mil - base

\* Mutant: the pause flag is not looked at.
OutcomeIgnorePause(current_mil) ==
    IF waiting_reference /\ auto_ref_mode THEN "ref"
    ELSE IF last_cumulative = None THEN "initref"
    ELSE IF Delta(current_mil, Val(last_cumulative)) > 0 THEN "measure"
    ELSE IF Delta(current_mil, Val(last_cumulative)) < 0 THEN "resync"
    ELSE "zero"

\* Mutant: the pause flag is looked at before the reference is fixed.
OutcomePauseFirst(current_mil) ==
    IF paused THEN "discard"
    ELSE IF waiting_reference /\ auto_ref_mode THEN "ref"
    ELSE IF last_cumulative = None THEN "initref"
    ELSE IF Delta(current_mil, Val(last_cumulative)) > 0 THEN "measure"
    ELSE IF Delta(current_mil, Val(last_cumulative)) < 0 THEN "resync"
    ELSE "zero"

\* The branch processor_worker takes for a reading.
Outcome(current_mil) ==
    IF waiting_reference /\ auto_ref_mode THEN "ref"
    ELSE IF paused THEN "discard"
    ELSE IF last_cumulative = None THEN "initref"
    ELSE IF Delta(current_mil, Val(last_cumulative)) > 0 THEN "measure"
    ELSE IF Delta(current_mil, Val(last_cumulative)) < 0 THEN "resync"
    ELSE "zero"

\* Mutant: a negative delta is measured too, by its size.
MeasAfterAbs(current_mil) ==
    IF Outcome(current_mil) = "measure"
    THEN Append(measurements, Delta(current_mil, Val(last_cumulative)))
    ELSE IF Outcome(current_mil) = "resync"
    THEN Append(measurements, Delta(Val(last_cumulative), current_mil))
    ELSE measurements

\* Mutant: delta >= 0, a reading equal to the baseline is measured too.
MeasAfterZero(current_mil) ==
    IF Outcome(current_mil) \in {"measure", "zero"}
    THEN Append(measurements, Delta(current_mil, Val(last_cumulative)))
    ELSE measurements

\* state.measurements after the reading
MeasAfter(current_mil) ==
    IF Outcome(current_mil) = "measure"
    THEN Append(measurements, Delta(current_mil, Val(last_cumulative)))
    ELSE measurements

\* Mutant: a measurement leaves the baseline where it was.
BaseAfterKeep(current_mil) ==
    IF Outcome(current_mil) \in {"ref", "initref", "resync"}
    THEN Some(current_mil)
    ELSE last_cumulative

\* state.last_cumulative after the reading
BaseAfter(current_mil) ==
    IF Outcome(current_mil) \in {"ref", "initref", "measure", "resync"}
    THEN Some(current_mil)
    ELSE last_cumulative

\* Mutant: the first reading fixes the reference and the flag stays up.
WaitingAfterStay(current_mil) == waiting_reference

\* state.waiting_reference after the reading
WaitingAfter(current_mil) ==
    IF Outcome(current_mil) = "ref" THEN FALSE ELSE waiting_reference

\* Mutant: the exception of play_beep leaves the while loop (it is caught by
\* the outer handler): nothing is logged, the threshold is not advanced.
BeepRaisedAbort(year_measured, nsy) == [next |-> nsy, fired |-> << >>]

\* The sound check when play_beep raises: `except Exception: pass` around the
\* call swallows it, and the loop logs the decade and advances the threshold
\* as after a beep that sounded.
BeepRaised(year_measured, nsy) == SoundCheck(year_measured, nsy)

\* the sound check of the reading when play_beep raises
SoundAfterRaised(current_mil) ==
    IF Outcome(current_mil) = "measure"
    THEN BeepRaised(anio_inicio + (Len(MeasAfter(current_mil)) - 1), next_sound_year)
    ELSE [next |-> next_sound_year, fired |-> << >>]

\* the sound check of the reading: year_measured is the year of the new ring
SoundAfter(current_mil) ==
    IF Outcome(current_mil) = "measure"
    THEN SoundCheck(anio_inicio + (Len(MeasAfter(current_mil)) - 1), next_sound_year)
    ELSE [next |-> next_sound_year, fired |-> << >>]

-----------------------------------------------------------------------------
(* History variables: what the last event did, the alerts so far, and the   *)
(* three scenarios the claims speak of.  h_cmd names the command the last   *)
(* step carried out: "set" and "rejected" (enter), "cancelled" (escape),    *)
(* "undone" and "nothing" (r), and "none" for every other step.             *)

\* The scenarios are followed while the series is no longer than MaxMeas.
Followed == Len(measurements) <= MaxMeas

\* no measurement is being handled, no handler is between its statements
NoProcFrame == [at |-> "none", current_mil |-> 0, year_measured |-> 0]
NoKeyFrame == [key |-> "none", at |-> "none"]
NoRace == [on |-> FALSE]

\* a log entry: its level and a number that tells entries apart (the text of
\* an entry is not followed)
Entry(level, n) == [level |-> level, n |-> n]

\* the three entries main appends before the threads start
MainLogs == [i \in 1..3 |-> Entry("info", i)]

\* no call of append_log is under way
NoLogFrame == [t \in {"proc", "ui"} |-> [at |-> "idle", text |-> Entry("none", 0), cut |-> << >>]]

NoSum == [ok |-> FALSE, ref |-> None]

\* h_sum: the first reference of a run in which nothing was undone and no
\* reading fell below the baseline (paused readings are allowed)
SumAfterReading(current_mil) ==
    IF ~Followed \/ ~h_sum.ok \/ Outcome(current_mil) = "resync" THEN NoSum
    ELSE IF Outcome(current_mil) \in {"ref", "initref"}
    THEN [ok |-> TRUE, ref |-> Some(current_mil)]
    ELSE h_sum

NoRedo == [phase |-> "none", seq |-> << >>, base0 |-> 0, cur |-> 0]
NoPz == [phase |-> "none", base |-> 0, m |-> 0, cur |-> 0, resync |-> FALSE,
         discarded |-> FALSE]

\* h_run: the readings processed so far, while they are strictly increasing,
\* were all processed unpaused and nothing was undone.
RunAfterReading(current_mil) ==
    IF Followed /\ h_run.ok /\ ~paused
       /\ (h_run.hist = << >> \/ current_mil > h_run.hist[Len(h_run.hist)])
    THEN [ok |-> TRUE, hist |-> Append(h_run.hist, current_mil)]
    ELSE [ok |-> FALSE, hist |-> << >>]

\* h_redo: a measurement was appended, then undone at once, then measured
\* again: either by the same reading ("same"), or by the reading the ring
\* started from followed by the same reading ("resynced", then "redone").
RedoAfterReading(current_mil) ==
    LET out == Outcome(current_mil)
        fresh == [phase |-> "appended", seq |-> MeasAfter(current_mil),
                  base0 |-> Val(last_cumulative), cur |-> current_mil]
    IN  IF ~Followed THEN NoRedo
        ELSE IF h_redo.phase = "undone" /\ current_mil = h_redo.cur
        THEN [h_redo EXCEPT !.phase = "same"]
        ELSE IF h_redo.phase = "undone" /\ current_mil = h_redo.base0 /\ out = "resync"
        THEN [h_redo EXCEPT !.phase = "resynced"]
        ELSE IF h_redo.phase = "resynced" /\ current_mil = h_redo.cur
        THEN [h_redo EXCEPT !.phase = "redone"]
        ELSE IF out = "measure" THEN fresh
        ELSE NoRedo

RedoAfterUndo ==
    IF Followed /\ h_redo.phase \in {"appended", "redone"}
    THEN [h_redo EXCEPT !.phase = "undone"]
    ELSE NoRedo

\* h_pz: a pause begun in the Referenced state (base: the baseline then;
\* discarded: a reading arrived during it), the resume (resync: a reading
\* below the baseline arrived after it), and the first measurement after
\* the resume (m, from reading cur).
PzAfterReading(current_mil) ==
    LET out == Outcome(current_mil)
    IN  IF ~Followed THEN NoPz
        ELSE IF h_pz.phase = "resumed" /\ out = "measure"
        THEN [h_pz EXCEPT !.phase = "measured",
                          !.m = MeasAfter(current_mil)[Len(MeasAfter(current_mil))],
                          !.cur = current_mil]
        ELSE IF h_pz.phase = "resumed" /\ out = "resync"
        THEN [h_pz EXCEPT !.resync = TRUE]
        ELSE IF h_pz.phase = "paused" /\ out = "discard"
        THEN [h_pz EXCEPT !.discarded = TRUE]
        ELSE IF h_pz.phase = "measured" THEN NoPz
        ELSE h_pz

PzAfterToggle ==
    IF ~Followed THEN NoPz
    ELSE IF ~paused
    THEN (IF waiting_reference \/ last_cumulative = None THEN NoPz
          ELSE [NoPz EXCEPT !.phase = "paused", !.base = Val(last_cumulative)])
    ELSE (IF h_pz.phase = "paused" THEN [h_pz EXCEPT !.phase = "resumed"] ELSE NoPz)

-----------------------------------------------------------------------------
(* Initial state: VROState.__init__ and main.                               *)

SiteCode == << "S", "I", "T", "E" >>

\* no file written yet; error: the last save raised
NoFile == [lines |-> << >>, error |-> FALSE]

InitState(code, anio) ==
    /\ waiting_reference = TRUE
    /\ last_cumulative = None
    /\ measurements = << >>
    /\ paused = FALSE
    /\ anio_inicio = anio
    /\ codigo = Prefix(code, 8)
    /\ year_counter = 0
    /\ next_sound_year = UpdateNextSoundYear(anio, 0)
    /\ stop_event = FALSE
    /\ app_running = TRUE
    /\ reader_q = << >>
    /\ reader_pc = "open"
    /\ proc_pc = "loop"
    /\ refresher_pc = "loop"
    /\ ser = "none"
    /\ awaiting_year = [on |-> FALSE, buf |-> << >>]
    /\ file = NoFile
    /\ preview = << >>

InitHist ==
    /\ h_out = "none"
    /\ h_nfired = 0
    /\ h_lastfired = None
    /\ h_alerts = << >>
    /\ h_clean = TRUE
    /\ h_run = [ok |-> TRUE, hist |-> << >>]
    /\ h_redo = NoRedo
    /\ h_pz = NoPz
    /\ h_cmd = "none"
    /\ proc_frame = NoProcFrame
    /\ key_frame = NoKeyFrame
    /\ h_race = NoRace
    /\ h_sum = [ok |-> TRUE, ref |-> None]
    /\ h_beep = "none"
    /\ logs = MainLogs
    /\ log_frame = NoLogFrame
    /\ logs_text = << >>

Init == /\ \E anio \in StartYears : InitState(SiteCode, anio)
        /\ InitHist

-----------------------------------------------------------------------------
(* lector_serial_worker: the serial reader thread.                          *)

\* The lines the instrument sends.  ReadingLine(r) is the reading of r units
\* of 0.0001 mm as the instrument writes it, "+0.0015 " for 15, after a
\* label; NoiseLines are a timed-out read and lines that hold no number.
ReadingLine(r) ==
    LET d == NatStr(r % 10000)
        frac == SubSeq(<< "0", "0", "0" >>, 1, 4 - Len(d)) \o d
    IN  << "x", "+" >> \o NatStr(r \div 10000) \o << "." >> \o frac \o << " " >>

NoiseLines == { << >>, << " " >>, << "x" >>, << "-" >>, << "+", "." >>,
                << "x", ".", " " >> }

RawLines == NoiseLines \cup {ReadingLine(r) : r \in RawReadings}

ThrLines == NoiseLines \cup {ReadingLine(r) : r \in ThrReadings}

AllLines == RawLines \cup ThrLines

\* serial.Serial(...) opens the port
ReaderOpenOk ==
    /\ reader_pc = "open"
    /\ reader_pc' = "loop"
    /\ ser' = "open"
    /\ h_cmd' = "none"
    /\ UNCHANGED << raceVars, logVars, h_sum, h_beep, engineVars, anio_inicio, codigo, next_sound_year, stop_event,
                    app_running, reader_q, proc_pc, refresher_pc, awaiting_year,
                    file, preview, histVars >>

\* serial.Serial(...) raises: one fatal event, and the thread returns
ReaderOpenFail ==
    /\ reader_pc = "open"
    /\ Len(reader_q) < MaxQueue
    /\ reader_q' = Append(reader_q, << "fatal" >>)
    /\ reader_pc' = "done"
    /\ h_cmd' = "none"
    /\ UNCHANGED << raceVars, logVars, h_sum, h_beep, engineVars, anio_inicio, codigo, next_sound_year, stop_event,
                    app_running, proc_pc, refresher_pc, ser, awaiting_year,
                    file, preview, histVars >>

\* what one turn of the loop makes of the bytes readline returned: nothing
\* for no bytes (the read timed out), else the value parsear_valor_linea
\* finds in the stripped line
ReaderVal(raw) ==
    IF raw = << >> THEN None
    ELSE ParsearValorLinea(Strip(raw))

\* ReaderVal of each line of the model, computed once
Parsed == [raw \in AllLines |-> ReaderVal(raw)]

\* One turn of the loop: readline returned raw, and a value found in it is
\* put on the queue as a "reading" event.  The model ends the stream of
\* readings when the rings held and the events queued are maxMeas.
ReaderLine(raw, maxMeas) ==
    /\ reader_pc = "loop"
    /\ ~stop_event
    /\ LET val == Parsed[raw]
       IN  /\ val # None => /\ Len(reader_q) < MaxQueue
                            /\ Len(measurements) + Len(reader_q) < maxMeas
           /\ reader_q' = IF val # None
                          THEN Append(reader_q, << "reading", Val(val) >>)
                          ELSE reader_q
    /\ h_cmd' = "none"
    /\ UNCHANGED << raceVars, logVars, h_sum, h_beep, engineVars, anio_inicio, codigo, next_sound_year, stop_event,
                    app_running, reader_pc, proc_pc, refresher_pc, ser,
                    awaiting_year, file, preview, histVars >>

\* Mutant: the port is left open when readline raises.
ReaderFailLeak ==
    /\ reader_pc = "loop"
    /\ ~stop_event
    /\ Len(reader_q) < MaxQueue
    /\ reader_q' = Append(reader_q, << "fatal" >>)
    /\ reader_pc' = "done"
    /\ h_cmd' = "none"
    /\ UNCHANGED << raceVars, logVars, h_sum, h_beep, engineVars, anio_inicio, codigo, next_sound_year, stop_event,
                    app_running, proc_pc, refresher_pc, ser, awaiting_year,
                    file, preview, histVars >>

\* readline raises: one fatal event, the port is closed (finally), the
\* thread ends
ReaderFail ==
    /\ reader_pc = "loop"
    /\ ~stop_event
    /\ Len(reader_q) < MaxQueue
    /\ reader_q' = Append(reader_q, << "fatal" >>)
    /\ reader_pc' = "done"
    /\ ser' = "closed"
    /\ h_cmd' = "none"
    /\ UNCHANGED << raceVars, logVars, h_sum, h_beep, engineVars, anio_inicio, codigo, next_sound_year, stop_event,
                    app_running, proc_pc, refresher_pc, awaiting_year,
                    file, preview, histVars >>

\* the loop sees stop_event set: the port is closed (finally), the thread ends
ReaderStop ==
    /\ reader_pc = "loop"
    /\ stop_event
    /\ reader_pc' = "done"
    /\ ser' = "closed"
    /\ h_cmd' = "none"
    /\ UNCHANGED << raceVars, logVars, h_sum, h_beep, engineVars, anio_inicio, codigo, next_sound_year, stop_event,
                    app_running, reader_q, proc_pc, refresher_pc, awaiting_year,
                    file, preview, histVars >>

-----------------------------------------------------------------------------
(* processor_worker: the processor thread.                                  *)

\* Mutant: the loop of the processor does not test the flag.
ProcCheckBlind ==
    /\ proc_pc = "loop"
    /\ proc_pc' = "get"
    /\ h_cmd' = "none"
    /\ UNCHANGED << raceVars, logVars, h_sum, h_beep, engineVars, anio_inicio, codigo, next_sound_year, stop_event,
                    app_running, reader_q, reader_pc, refresher_pc, ser,
                    awaiting_year, file, preview, histVars >>

\* while not stop_event.is_set()
ProcCheck ==
    /\ proc_pc = "loop"
    /\ proc_pc' = IF stop_event THEN "done" ELSE "get"
    /\ h_cmd' = "none"
    /\ UNCHANGED << raceVars, logVars, h_sum, h_beep, engineVars, anio_inicio, codigo, next_sound_year, stop_event, app_running,
                    reader_q, reader_pc, awaiting_year, file, preview, histVars,
                    ser, refresher_pc >>

\* reader_q.get(timeout=0.2) raises queue.Empty
ProcTimeout ==
    /\ proc_pc = "get"
    /\ reader_q = << >>
    /\ proc_pc' = "loop"
    /\ h_cmd' = "none"
    /\ UNCHANGED << raceVars, logVars, h_sum, h_beep, engineVars, anio_inicio, codigo, next_sound_year, stop_event, app_running,
                    reader_q, reader_pc, awaiting_year, file, preview, histVars,
                    ser, refresher_pc >>

\* A "reading" event is taken off the queue and handled.
ProcReading(beep_works) ==
    /\ proc_pc = "get"
    /\ reader_q # << >>
    /\ Head(reader_q)[1] = "reading"
    /\ LET current_mil == CurrentMil(Head(reader_q)[2])
           tried == SoundAfter(current_mil).fired # << >>
           snd == IF beep_works THEN SoundAfter(current_mil)
                  ELSE SoundAfterRaised(current_mil)
       IN  /\ beep_works \/ tried
           /\ h_beep' = IF ~beep_works THEN "failed"
                         ELSE IF h_beep \notin {"failed", "since"} THEN "none"
                         ELSE IF Outcome(current_mil) = "measure" THEN "next"
                         ELSE "since"
           /\ waiting_reference' = WaitingAfter(current_mil)
           /\ last_cumulative' = BaseAfter(current_mil)
           /\ measurements' = MeasAfter(current_mil)
           /\ year_counter' = IF Outcome(current_mil) = "measure"
                              THEN year_counter + 1 ELSE year_counter
           /\ next_sound_year' = snd.next
           /\ h_out' = Outcome(current_mil)
           /\ h_nfired' = Len(snd.fired)
           /\ h_lastfired' = IF snd.fired # << >>
                             THEN Some(snd.fired[Len(snd.fired)]) ELSE h_lastfired
           /\ h_alerts' = IF h_clean THEN h_alerts \o snd.fired ELSE << >>
           /\ h_run' = RunAfterReading(current_mil)
           /\ h_redo' = RedoAfterReading(current_mil)
           /\ h_pz' = PzAfterReading(current_mil)
           /\ h_sum' = SumAfterReading(current_mil)
    /\ reader_q' = Tail(reader_q)
    /\ proc_pc' = "loop"
    /\ h_cmd' = "none"
    /\ UNCHANGED << raceVars, logVars, paused, anio_inicio, codigo, stop_event, app_running, reader_pc,
                    awaiting_year, file, preview, h_clean,
                    ser, refresher_pc >>

\* Mutant: the fatal event is logged and the stop signal is left alone.
ProcFatalNoStop ==
    /\ proc_pc = "get"
    /\ reader_q # << >>
    /\ Head(reader_q)[1] = "fatal"
    /\ reader_q' = Tail(reader_q)
    /\ proc_pc' = "loop"
    /\ h_out' = "fatal"
    /\ h_redo' = NoRedo
    /\ h_cmd' = "none"
    /\ UNCHANGED << raceVars, logVars, h_sum, h_beep, engineVars, anio_inicio, codigo, next_sound_year, stop_event,
                    app_running, reader_pc, refresher_pc, ser, awaiting_year,
                    file, preview, h_nfired, h_lastfired, h_alerts, h_clean,
                    h_run, h_pz >>

\* A "fatal" event is taken off the queue: stop_event.set()
ProcFatal ==
    /\ proc_pc = "get"
    /\ reader_q # << >>
    /\ Head(reader_q)[1] = "fatal"
    /\ stop_event' = TRUE
    /\ reader_q' = Tail(reader_q)
    /\ proc_pc' = "loop"
    /\ h_out' = "fatal"
    /\ h_redo' = NoRedo
    /\ h_cmd' = "none"
    /\ UNCHANGED << raceVars, logVars, h_sum, h_beep, engineVars, anio_inicio, codigo, next_sound_year, app_running,
                    reader_pc,
                    awaiting_year, file, preview,
                    h_nfired, h_lastfired, h_alerts, h_clean, h_run, h_pz,
                    ser, refresher_pc >>

-----------------------------------------------------------------------------
(* build_app: the key handlers.                                             *)

BufCap == 6

\* "p": pause or resume
KeyP ==
    /\ app_running
    /\ paused' = ~paused
    /\ h_pz' = PzAfterToggle
    /\ h_redo' = NoRedo
    /\ h_cmd' = "none"
    /\ UNCHANGED << raceVars, logVars, h_sum, h_beep, waiting_reference, last_cumulative, measurements, year_counter,
                    anio_inicio, codigo, next_sound_year, stop_event, app_running, reader_q,
                    reader_pc, proc_pc, awaiting_year, file, preview,
                    h_out, h_nfired, h_lastfired, h_alerts, h_clean, h_run,
                    ser, refresher_pc >>

\* Mutant: pop(0), the oldest measurement goes.
PopFirst(ms) == Tail(ms)

\* Mutant: del measurements[-2:], the two newest go.
PopTwo(ms) == SubSeq(ms, 1, Max(0, Len(ms) - 2))

\* state.measurements.pop()
Pop(ms) == SubSeq(ms, 1, Len(ms) - 1)

\* "r": remove the newest measurement, recompute the threshold
KeyR ==
    /\ app_running
    /\ IF measurements # << >>
       THEN /\ measurements' = Pop(measurements)
            /\ year_counter' = Max(0, year_counter - 1)
            /\ next_sound_year' = UpdateNextSoundYear(anio_inicio, Len(measurements'))
            /\ h_clean' = FALSE
            /\ h_alerts' = << >>
            /\ h_run' = [ok |-> FALSE, hist |-> << >>]
            /\ h_redo' = RedoAfterUndo
            /\ h_cmd' = IF Followed THEN "undone" ELSE "none"
            /\ h_sum' = NoSum
       ELSE /\ UNCHANGED << measurements, year_counter, next_sound_year,
                            h_clean, h_alerts, h_run >>
            /\ h_redo' = NoRedo
            /\ h_cmd' = IF Followed THEN "nothing" ELSE "none"
            /\ UNCHANGED h_sum
    /\ UNCHANGED << raceVars, logVars, h_beep, waiting_reference, last_cumulative, paused, anio_inicio, codigo,
                    stop_event, app_running, reader_q, reader_pc, proc_pc, awaiting_year, file,
                    preview, h_out, h_nfired, h_lastfired, h_pz,
                    ser, refresher_pc >>

\* "y": enter year-entry mode
KeyY ==
    /\ app_running
    /\ awaiting_year' = [on |-> TRUE, buf |-> << >>]
    /\ h_redo' = NoRedo
    /\ h_cmd' = "none"
    /\ UNCHANGED << raceVars, logVars, h_sum, h_beep, engineVars, anio_inicio, codigo, next_sound_year, stop_event, app_running,
                    reader_q, reader_pc, proc_pc, file, preview,
                    h_out, h_nfired, h_lastfired, h_alerts, h_clean, h_run, h_pz,
                    ser, refresher_pc >>

\* a digit key: appended to the buffer in year-entry mode, up to BufCap
\* characters (the model types at most MaxBuf)
KeyDigit(ch) ==
    /\ app_running
    /\ awaiting_year.on
    /\ Len(awaiting_year.buf) < MaxBuf
    /\ awaiting_year' = IF Len(awaiting_year.buf) < BufCap
                        THEN [awaiting_year EXCEPT !.buf = Append(@, ch)]
                        ELSE awaiting_year
    /\ h_redo' = NoRedo
    /\ h_cmd' = "none"
    /\ UNCHANGED << raceVars, logVars, h_sum, h_beep, engineVars, anio_inicio, codigo, next_sound_year, stop_event, app_running,
                    reader_q, reader_pc, proc_pc, file, preview,
                    h_out, h_nfired, h_lastfired, h_alerts, h_clean, h_run, h_pz,
                    ser, refresher_pc >>

\* backspace: drops the last character of the buffer
KeyBackspace ==
    /\ app_running
    /\ awaiting_year.on
    /\ awaiting_year.buf # << >>
    /\ awaiting_year' = [awaiting_year EXCEPT !.buf = SubSeq(@, 1, Len(@) - 1)]
    /\ h_redo' = NoRedo
    /\ h_cmd' = "none"
    /\ UNCHANGED << raceVars, logVars, h_sum, h_beep, engineVars, anio_inicio, codigo, next_sound_year, stop_event, app_running,
                    reader_q, reader_pc, proc_pc, file, preview,
                    h_out, h_nfired, h_lastfired, h_alerts, h_clean, h_run, h_pz,
                    ser, refresher_pc >>

\* Mutant: an empty buffer is taken for the year 0.
KeyEnterZero ==
    /\ app_running
    /\ awaiting_year.on
    /\ LET txt == Strip(awaiting_year.buf)
       IN  IF txt # << >> /\ IsIntText(txt)
           THEN /\ anio_inicio' = IntVal(txt)
                /\ next_sound_year' = UpdateNextSoundYear(IntVal(txt), Len(measurements))
                /\ h_clean' = FALSE
                /\ h_alerts' = << >>
                /\ h_cmd' = IF Followed THEN "set" ELSE "none"
           ELSE /\ anio_inicio' = 0
                /\ next_sound_year' = UpdateNextSoundYear(0, Len(measurements))
                /\ h_clean' = FALSE
                /\ h_alerts' = << >>
                /\ h_cmd' = IF Followed THEN "set" ELSE "none"
    /\ awaiting_year' = [on |-> FALSE, buf |-> << >>]
    /\ h_redo' = NoRedo
    /\ UNCHANGED << raceVars, logVars, h_sum, h_beep, engineVars, codigo, stop_event, app_running, reader_q, reader_pc, proc_pc,
                    file, preview, h_out, h_nfired, h_lastfired, h_run, h_pz,
                    ser, refresher_pc >>

\* Mutant: the year is changed and the threshold is left as it was.
KeyEnterStale ==
    /\ app_running
    /\ awaiting_year.on
    /\ LET txt == Strip(awaiting_year.buf)
       IN  IF txt # << >> /\ IsIntText(txt)
           THEN /\ anio_inicio' = IntVal(txt)
                /\ next_sound_year' = next_sound_year
                /\ h_clean' = FALSE
                /\ h_alerts' = << >>
                /\ h_cmd' = IF Followed THEN "set" ELSE "none"
           ELSE /\ UNCHANGED << anio_inicio, next_sound_year, h_clean, h_alerts >>
                /\ h_cmd' = IF Followed THEN "rejected" ELSE "none"
    /\ awaiting_year' = [on |-> FALSE, buf |-> << >>]
    /\ h_redo' = NoRedo
    /\ UNCHANGED << raceVars, logVars, h_sum, h_beep, engineVars, codigo, stop_event, app_running, reader_q, reader_pc, proc_pc,
                    file, preview, h_out, h_nfired, h_lastfired, h_run, h_pz,
                    ser, refresher_pc >>

\* enter: int(buf) becomes anio_inicio and the threshold is recomputed; an
\* empty buffer (or one int() rejects) changes nothing; the mode ends
KeyEnter ==
    /\ app_running
    /\ awaiting_year.on
    /\ LET txt == Strip(awaiting_year.buf)
       IN  IF txt # << >> /\ IsIntText(txt)
           THEN /\ anio_inicio' = IntVal(txt)
                /\ next_sound_year' = UpdateNextSoundYear(IntVal(txt), Len(measurements))
                /\ h_clean' = FALSE
                /\ h_alerts' = << >>
                /\ h_cmd' = IF Followed THEN "set" ELSE "none"
           ELSE /\ UNCHANGED << anio_inicio, next_sound_year, h_clean, h_alerts >>
                /\ h_cmd' = IF Followed THEN "rejected" ELSE "none"
    /\ awaiting_year' = [on |-> FALSE, buf |-> << >>]
    /\ h_redo' = NoRedo
    /\ UNCHANGED << raceVars, logVars, h_sum, h_beep, engineVars, codigo, stop_event, app_running, reader_q, reader_pc, proc_pc,
                    file, preview, h_out, h_nfired, h_lastfired, h_run, h_pz,
                    ser, refresher_pc >>

\* escape: leaves year-entry mode
KeyEscape ==
    /\ app_running
    /\ awaiting_year.on
    /\ awaiting_year' = [on |-> FALSE, buf |-> << >>]
    /\ h_redo' = NoRedo
    /\ h_cmd' = IF Followed THEN "cancelled" ELSE "none"
    /\ UNCHANGED << raceVars, logVars, h_sum, h_beep, engineVars, anio_inicio, codigo, next_sound_year, stop_event, app_running,
                    reader_q, reader_pc, proc_pc, file, preview,
                    h_out, h_nfired, h_lastfired, h_alerts, h_clean, h_run, h_pz,
                    ser, refresher_pc >>

\* "g": escribir_tucson writes the file, or raises before opening it and the
\* handler logs the error
KeyG ==
    /\ app_running
    /\ LET r == EscribirTucson(codigo, anio_inicio, measurements)
       IN  file' = IF r.ok THEN [lines |-> r.lines, error |-> FALSE]
                   ELSE [file EXCEPT !.error = TRUE]
    /\ h_cmd' = "none"
    /\ UNCHANGED << raceVars, logVars, h_sum, h_beep, engineVars, anio_inicio, codigo, next_sound_year, stop_event, app_running,
                    reader_q, reader_pc, proc_pc, awaiting_year, preview, histVars,
                    ser, refresher_pc >>

\* "s": saves as "g" does, sets stop_event and leaves the application; main
\* then sets stop_event again and joins the threads
KeyS ==
    /\ app_running
    /\ LET r == EscribirTucson(codigo, anio_inicio, measurements)
       IN  file' = IF r.ok THEN [lines |-> r.lines, error |-> FALSE]
                   ELSE [file EXCEPT !.error = TRUE]
    /\ stop_event' = TRUE
    /\ app_running' = FALSE
    /\ h_redo' = NoRedo
    /\ h_cmd' = "none"
    /\ UNCHANGED << raceVars, logVars, h_sum, h_beep, engineVars, anio_inicio, codigo, next_sound_year,
                    reader_q, reader_pc, proc_pc, awaiting_year, preview,
                    h_out, h_nfired, h_lastfired, h_alerts, h_clean, h_run, h_pz,
                    ser, refresher_pc >>

\* One turn of refresher_loop: the preview is rendered from the state; when
\* format_preview_lines raises, the turn changes nothing
Refresh ==
    /\ refresher_pc = "loop"
    /\ ~stop_event
    /\ LET r == FormatPreviewLines(codigo, anio_inicio, measurements, PREVIEW_MAX_LINES)
       IN  preview' = IF r.ok THEN r.lines ELSE preview
    /\ h_cmd' = "none"
    /\ UNCHANGED << raceVars, logVars, h_sum, h_beep, engineVars, anio_inicio, codigo, next_sound_year, stop_event,
                    app_running, reader_q, reader_pc, proc_pc, refresher_pc, ser,
                    awaiting_year, file, histVars >>

\* refresher_loop sees stop_event set and returns
RefreshStop ==
    /\ refresher_pc = "loop"
    /\ stop_event
    /\ refresher_pc' = "done"
    /\ h_cmd' = "none"
    /\ UNCHANGED << raceVars, logVars, h_sum, h_beep, engineVars, anio_inicio, codigo, next_sound_year, stop_event,
                    app_running, reader_q, reader_pc, proc_pc, ser,
                    awaiting_year, file, preview, histVars >>

-----------------------------------------------------------------------------
(* The pipeline: reader, processor and keys.  Spec takes readings that      *)
(* round differently and holds few rings; SpecThr takes two readings and    *)
(* holds enough rings to cross two thresholds.                              *)

Next ==
    \/ ReaderOpenOk
    \/ ReaderOpenFail
    \/ \E raw \in RawLines : ReaderLine(raw, MaxMeas)
    \/ ReaderFail
    \/ ReaderStop
    \/ ProcCheck
    \/ ProcTimeout
    \/ \E beep_works \in BOOLEAN : ProcReading(beep_works)
    \/ ProcFatal
    \/ KeyP
    \/ KeyR
    \/ KeyY
    \/ \E ch \in DigitKeys : KeyDigit(ch)
    \/ KeyBackspace
    \/ KeyEnter
    \/ KeyEscape
    \/ KeyS

Spec == Init /\ [][Next]_vars

NextThr ==
    \/ ReaderOpenOk
    \/ ReaderOpenFail
    \/ \E raw \in ThrLines : ReaderLine(raw, MaxMeasThr)
    \/ ReaderFail
    \/ ReaderStop
    \/ ProcCheck
    \/ ProcTimeout
    \/ \E beep_works \in BOOLEAN : ProcReading(beep_works)
    \/ ProcFatal
    \/ KeyP
    \/ KeyR
    \/ KeyY
    \/ \E ch \in DigitKeys : KeyDigit(ch)
    \/ KeyBackspace
    \/ KeyEnter
    \/ KeyEscape
    \/ KeyS

SpecThr == Init /\ [][NextThr]_vars

-----------------------------------------------------------------------------
(* The pipeline with its three loops, for the shutdown: the reader, the     *)
(* processor and the refresher, and the keys.  Each thread is scheduled     *)
(* again and again: serial.Serial returns or raises, readline and           *)
(* reader_q.get return after their timeouts of 0.2 s, time.sleep returns.   *)
(* The keys of the year entry touch neither stop_event nor a thread and     *)
(* are left to Spec.                                                        *)

NextLive ==
    \/ ReaderOpenOk
    \/ ReaderOpenFail
    \/ \E raw \in ThrLines : ReaderLine(raw, MaxMeas)
    \/ ReaderFail
    \/ ReaderStop
    \/ ProcCheck
    \/ ProcTimeout
    \/ \E beep_works \in BOOLEAN : ProcReading(beep_works)
    \/ ProcFatal
    \/ Refresh
    \/ RefreshStop
    \/ KeyP
    \/ KeyR
    \/ KeyS

ReaderStep == ReaderOpenOk \/ ReaderOpenFail \/ ReaderStop

ProcStep ==
    ProcCheck \/ ProcTimeout \/ (\E beep_works \in BOOLEAN : ProcReading(beep_works)) \/ ProcFatal

SpecLive ==
    /\ Init
    /\ [][NextLive]_vars
    /\ WF_vars(ReaderStep)
    /\ WF_vars(ProcStep)
    /\ WF_vars(RefreshStop)

-----------------------------------------------------------------------------
(* The encoder on its own: a session that holds n rings for a site code and *)
(* a start year, saved and rendered.                                        *)

EncCodes == { << "S" >>, SiteCode, << "A", " ", "B" >>,
              << "A", "B", "C", "D", "E", "F", "G", "H" >> }
EncYears == {1696, 1700, 1703, 12345}
\* widths base+1 .. base+n: of 1 or 2 digits, and of 5 or 6
EncBases == {0, 99994}

EncMeas(n, base) == [i \in 1..n |-> base + i]

InitEnc ==
    \E code \in EncCodes, anio \in EncYears, n \in 0..MaxEncLen, base \in EncBases :
        /\ waiting_reference = (n = 0)
        /\ last_cumulative = IF n = 0 THEN None ELSE Some(n * base + (n * (n + 1)) \div 2)
        /\ measurements = EncMeas(n, base)
        /\ paused = FALSE
        /\ anio_inicio = anio
        /\ codigo = Prefix(code, 8)
        /\ year_counter = n
        /\ next_sound_year = UpdateNextSoundYear(anio, n)
        /\ stop_event = FALSE
        /\ app_running = TRUE
        /\ reader_q = << >>
        /\ reader_pc = "loop"
        /\ proc_pc = "loop"
        /\ refresher_pc = "loop"
        /\ ser = "open"
        /\ awaiting_year = [on |-> FALSE, buf |-> << >>]
        /\ file = NoFile
        /\ preview = << >>
        /\ h_out = "none"
        /\ h_nfired = 0
        /\ h_lastfired = None
        /\ h_alerts = << >>
        /\ h_clean = FALSE
        /\ h_run = [ok |-> FALSE, hist |-> << >>]
        /\ h_redo = NoRedo
        /\ h_pz = NoPz
        /\ h_cmd = "none"
        /\ proc_frame = NoProcFrame
        /\ key_frame = NoKeyFrame
        /\ h_race = NoRace
        /\ h_sum = NoSum
        /\ h_beep = "none"
        /\ logs = MainLogs
        /\ log_frame = NoLogFrame
        /\ logs_text = << >>

NextEnc ==
    \/ KeyG
    \/ Refresh

SpecEnc == InitEnc /\ [][NextEnc]_vars

-----------------------------------------------------------------------------
(* One measurement and one command, statement by statement.  The processor  *)
(* thread and the key handlers (run by app.run() in the main thread) share   *)
(* VROState with no lock; here the branch of a measurement in               *)
(* processor_worker and the handlers of "r" and enter are taken one         *)
(* statement at a time, so that the statements of one may fall between the  *)
(* statements of the other.                                                 *)

RaceYears == {7, 8, 9, 10}
\* the deltas of the reading that arrives
RaceDeltas == {2, 3}
\* the buffers of the year editor when enter is pressed
RaceBufs == { << "8" >>, << "1", "7" >> }
RaceKeys == {[key |-> "r", buf |-> << >>]} \cup {[key |-> "enter", buf |-> b] : b \in RaceBufs}

\* measurements, baseline, start year, threshold and alerts
RaceState == [ms |-> measurements, base |-> Val(last_cumulative), anio |-> anio_inicio,
              nsy |-> next_sound_year, fired |-> h_race.fired]

\* A session that holds n rings of width 1 after a reference of 0; a reading
\* waits in the queue, and a key is about to be handled.
InitRace ==
    \E anio \in RaceYears, n \in 0..MaxRaceMeas, d \in RaceDeltas, k \in RaceKeys :
        /\ waiting_reference = FALSE
        /\ last_cumulative = Some(n)
        /\ measurements = [i \in 1..n |-> 1]
        /\ paused = FALSE
        /\ anio_inicio = anio
        /\ codigo = SiteCode
        /\ year_counter = n
        /\ next_sound_year = UpdateNextSoundYear(anio, n)
        /\ stop_event = FALSE
        /\ app_running = TRUE
        /\ reader_q = << << "reading", 10 * (n + d) >> >>
        /\ reader_pc = "loop"
        /\ proc_pc = "get"
        /\ refresher_pc = "loop"
        /\ ser = "open"
        /\ awaiting_year = [on |-> k.key = "enter", buf |-> k.buf]
        /\ file = NoFile
        /\ preview = << >>
        /\ h_out = "none"
        /\ h_nfired = 0
        /\ h_lastfired = None
        /\ h_alerts = << >>
        /\ h_clean = FALSE
        /\ h_run = [ok |-> FALSE, hist |-> << >>]
        /\ h_redo = NoRedo
        /\ h_pz = NoPz
        /\ h_cmd = "none"
        /\ proc_frame = NoProcFrame
        /\ key_frame = [key |-> k.key, at |-> "start"]
        /\ h_race = [on |-> TRUE,
                     start |-> [ms |-> [i \in 1..n |-> 1], base |-> n, anio |-> anio,
                                nsy |-> UpdateNextSoundYear(anio, n), fired |-> << >>],
                     current_mil |-> n + d,
                     key |-> k,
                     fired |-> << >>]
        /\ h_sum = NoSum
        /\ h_beep = "none"
        /\ logs = MainLogs
        /\ log_frame = NoLogFrame
        /\ logs_text = << >>

\* The event is taken, delta is computed and measurements.append(measured)
ReadingAppend ==
    /\ proc_pc = "get"
    /\ proc_frame.at = "none"
    /\ reader_q # << >>
    /\ Head(reader_q)[1] = "reading"
    /\ LET current_mil == CurrentMil(Head(reader_q)[2])
       IN  /\ Outcome(current_mil) = "measure"
           /\ measurements' = Append(measurements, Delta(current_mil, Val(last_cumulative)))
           /\ proc_frame' = [at |-> "year", current_mil |-> current_mil, year_measured |-> 0]
    /\ reader_q' = Tail(reader_q)
    /\ UNCHANGED << waiting_reference, last_cumulative, paused, anio_inicio, codigo,
                    year_counter, next_sound_year, stop_event, app_running, reader_pc,
                    proc_pc, refresher_pc, ser, awaiting_year, file, preview, histVars, h_sum, h_beep, logVars,
                    h_cmd, key_frame, h_race >>

\* year_measured = state.anio_inicio + (len(state.measurements) - 1)
ReadingYear ==
    /\ proc_frame.at = "year"
    /\ proc_frame' = [proc_frame EXCEPT !.at = "count",
                          !.year_measured = anio_inicio + (Len(measurements) - 1)]
    /\ UNCHANGED << engineVars, anio_inicio, codigo, next_sound_year, stop_event,
                    app_running, reader_q, reader_pc, proc_pc, refresher_pc, ser,
                    awaiting_year, file, preview, histVars, h_sum, h_beep, logVars, h_cmd, key_frame, h_race >>

\* state.year_counter += 1; state.last_cumulative = current_mil
ReadingCount ==
    /\ proc_frame.at = "count"
    /\ year_counter' = year_counter + 1
    /\ last_cumulative' = Some(proc_frame.current_mil)
    /\ proc_frame' = [proc_frame EXCEPT !.at = "test"]
    /\ UNCHANGED << waiting_reference, measurements, paused, anio_inicio, codigo,
                    next_sound_year, stop_event, app_running, reader_q, reader_pc,
                    proc_pc, refresher_pc, ser, awaiting_year, file, preview, histVars, h_sum, h_beep, logVars,
                    h_cmd, key_frame, h_race >>

\* while year_measured >= state.next_sound_year; when the test fails the
\* event is done and the thread is back at the head of its loop
ReadingTest ==
    /\ proc_frame.at = "test"
    /\ IF sound_enabled /\ proc_frame.year_measured >= next_sound_year
       THEN /\ proc_frame' = [proc_frame EXCEPT !.at = "beep"]
            /\ UNCHANGED proc_pc
       ELSE /\ proc_frame' = NoProcFrame
            /\ proc_pc' = "loop"
    /\ UNCHANGED << engineVars, anio_inicio, codigo, next_sound_year, stop_event,
                    app_running, reader_q, reader_pc, refresher_pc, ser,
                    awaiting_year, file, preview, histVars, h_sum, h_beep, logVars, h_cmd, key_frame, h_race >>

\* play_beep() and the log entry of the decade, state.next_sound_year
ReadingBeep ==
    /\ proc_frame.at = "beep"
    /\ h_race' = [h_race EXCEPT !.fired = Append(@, next_sound_year)]
    /\ proc_frame' = [proc_frame EXCEPT !.at = "advance"]
    /\ UNCHANGED << engineVars, anio_inicio, codigo, next_sound_year, stop_event,
                    app_running, reader_q, reader_pc, proc_pc, refresher_pc, ser,
                    awaiting_year, file, preview, histVars, h_sum, h_beep, logVars, h_cmd, key_frame >>

\* state.next_sound_year += state.sound_step
ReadingAdvance ==
    /\ proc_frame.at = "advance"
    /\ next_sound_year' = next_sound_year + sound_step
    /\ proc_frame' = [proc_frame EXCEPT !.at = "test"]
    /\ UNCHANGED << engineVars, anio_inicio, codigo, stop_event,
                    app_running, reader_q, reader_pc, proc_pc, refresher_pc, ser,
                    awaiting_year, file, preview, histVars, h_sum, h_beep, logVars, h_cmd, key_frame, h_race >>

\* "r": if state.measurements: pop() and year_counter
UndoPop ==
    /\ app_running
    /\ key_frame = [key |-> "r", at |-> "start"]
    /\ IF measurements # << >>
       THEN /\ measurements' = Pop(measurements)
            /\ year_counter' = Max(0, year_counter - 1)
            /\ key_frame' = [key_frame EXCEPT !.at = "update"]
       ELSE /\ UNCHANGED << measurements, year_counter >>
            /\ key_frame' = [key_frame EXCEPT !.at = "end"]
    /\ UNCHANGED << waiting_reference, last_cumulative, paused, anio_inicio, codigo,
                    next_sound_year, stop_event, app_running, reader_q, reader_pc,
                    proc_pc, refresher_pc, ser, awaiting_year, file, preview, histVars, h_sum, h_beep, logVars,
                    h_cmd, proc_frame, h_race >>

\* "r": update_next_sound_year(state)
UndoUpdate ==
    /\ key_frame = [key |-> "r", at |-> "update"]
    /\ next_sound_year' = UpdateNextSoundYear(anio_inicio, Len(measurements))
    /\ key_frame' = [key_frame EXCEPT !.at = "end"]
    /\ UNCHANGED << engineVars, anio_inicio, codigo, stop_event,
                    app_running, reader_q, reader_pc, proc_pc, refresher_pc, ser,
                    awaiting_year, file, preview, histVars, h_sum, h_beep, logVars, h_cmd, proc_frame, h_race >>

\* enter: state.anio_inicio = int(txt); an empty or rejected buffer ends the
\* handler
YearSet ==
    /\ app_running
    /\ key_frame = [key |-> "enter", at |-> "start"]
    /\ awaiting_year.on
    /\ LET txt == Strip(awaiting_year.buf)
       IN  IF txt # << >> /\ IsIntText(txt)
           THEN /\ anio_inicio' = IntVal(txt)
                /\ key_frame' = [key_frame EXCEPT !.at = "update"]
                /\ UNCHANGED awaiting_year
           ELSE /\ UNCHANGED anio_inicio
                /\ key_frame' = [key_frame EXCEPT !.at = "end"]
                /\ awaiting_year' = [on |-> FALSE, buf |-> << >>]
    /\ UNCHANGED << engineVars, codigo, next_sound_year, stop_event,
                    app_running, reader_q, reader_pc, proc_pc, refresher_pc, ser,
                    file, preview, histVars, h_sum, h_beep, logVars, h_cmd, proc_frame, h_race >>

\* enter: update_next_sound_year(state), and the mode ends
YearUpdate ==
    /\ key_frame = [key |-> "enter", at |-> "update"]
    /\ next_sound_year' = UpdateNextSoundYear(anio_inicio, Len(measurements))
    /\ awaiting_year' = [on |-> FALSE, buf |-> << >>]
    /\ key_frame' = [key_frame EXCEPT !.at = "end"]
    /\ UNCHANGED << engineVars, anio_inicio, codigo, stop_event,
                    app_running, reader_q, reader_pc, proc_pc, refresher_pc, ser,
                    file, preview, histVars, h_sum, h_beep, logVars, h_cmd, proc_frame, h_race >>

NextRace ==
    \/ ReadingAppend
    \/ ReadingYear
    \/ ReadingCount
    \/ ReadingTest
    \/ ReadingBeep
    \/ ReadingAdvance
    \/ UndoPop
    \/ UndoUpdate
    \/ YearSet
    \/ YearUpdate

SpecRace == InitRace /\ [][NextRace]_vars

-----------------------------------------------------------------------------
(* The log, statement by statement.  The processor takes a "fatal" event    *)
(* (append_log, then stop_event.set()) while the handler of "p" runs        *)
(* (paused, then append_log) and refresher_loop turns: test of stop_event,  *)
(* then the texts for the screen.  append_log is taken one statement at a   *)
(* time: logs.append, the test of the length, the slice, the assignment.    *)

LOG_CAP == 1200
LOG_VIEW == 300

\* lines[-k:] for k > 0
LastOf(lines, k) ==
    IF Len(lines) <= k THEN lines ELSE SubSeq(lines, Len(lines) - k + 1, Len(lines))

FatalEntry == Entry("fatal", 0)
PauseEntry == Entry("info", 0)

\* A session whose log holds n entries; a fatal event waits in the queue,
\* the processor stands in get(), and "p" is about to be handled.
InitLog ==
    \E anio \in StartYears, n \in (LOG_CAP - MaxLogRoom)..LOG_CAP, pz \in BOOLEAN :
        /\ waiting_reference = TRUE
        /\ last_cumulative = None
        /\ measurements = << >>
        /\ paused = pz
        /\ anio_inicio = anio
        /\ codigo = SiteCode
        /\ year_counter = 0
        /\ next_sound_year = UpdateNextSoundYear(anio, 0)
        /\ stop_event = FALSE
        /\ app_running = TRUE
        /\ reader_q = << << "fatal", 0 >> >>
        /\ reader_pc = "done"
        /\ proc_pc = "get"
        /\ refresher_pc = "loop"
        /\ ser = "closed"
        /\ awaiting_year = [on |-> FALSE, buf |-> << >>]
        /\ file = NoFile
        /\ preview = << >>
        /\ h_out = "none"
        /\ h_nfired = 0
        /\ h_lastfired = None
        /\ h_alerts = << >>
        /\ h_clean = FALSE
        /\ h_run = [ok |-> FALSE, hist |-> << >>]
        /\ h_redo = NoRedo
        /\ h_pz = NoPz
        /\ h_cmd = "none"
        /\ proc_frame = NoProcFrame
        /\ key_frame = [key |-> "p", at |-> "start"]
        /\ h_race = NoRace
        /\ h_sum = NoSum
        /\ h_beep = "none"
        /\ logs = [i \in 1..n |-> Entry("info", i)]
        /\ log_frame = NoLogFrame
        /\ logs_text = << >>

\* what the steps of the log leave alone
LogFrame == << waiting_reference, last_cumulative, measurements, anio_inicio, codigo,
               year_counter, next_sound_year, app_running, reader_pc, ser,
               awaiting_year, file, histVars, h_cmd, proc_frame, h_race, h_sum, h_beep >>

\* self.logs.append(text)
LogAppend(t) ==
    /\ log_frame[t].at = "append"
    /\ logs' = Append(logs, log_frame[t].text)
    /\ log_frame' = [log_frame EXCEPT ![t].at = "test"]
    /\ UNCHANGED << LogFrame, paused, stop_event, reader_q, proc_pc, refresher_pc,
                    preview, key_frame, logs_text >>

\* if len(self.logs) > 1200; the call returns when it is not
LogTest(t) ==
    /\ log_frame[t].at = "test"
    /\ log_frame' = [log_frame EXCEPT ![t].at = IF Len(logs) > LOG_CAP THEN "slice"
                                                ELSE "returned"]
    /\ UNCHANGED << LogFrame, paused, stop_event, reader_q, proc_pc, refresher_pc,
                    preview, key_frame, logs, logs_text >>

\* self.logs[-1200:], the right side of the assignment
LogSlice(t) ==
    /\ log_frame[t].at = "slice"
    /\ log_frame' = [log_frame EXCEPT ![t].at = "store", ![t].cut = LastOf(logs, LOG_CAP)]
    /\ UNCHANGED << LogFrame, paused, stop_event, reader_q, proc_pc, refresher_pc,
                    preview, key_frame, logs, logs_text >>

\* self.logs = (the slice)
LogStore(t) ==
    /\ log_frame[t].at = "store"
    /\ logs' = log_frame[t].cut
    /\ log_frame' = [log_frame EXCEPT ![t].at = "returned", ![t].cut = << >>]
    /\ UNCHANGED << LogFrame, paused, stop_event, reader_q, proc_pc, refresher_pc,
                    preview, key_frame, logs_text >>

\* The processor takes the "fatal" event and calls append_log("fatal", ...)
FatalTake ==
    /\ proc_pc = "get"
    /\ log_frame["proc"].at = "idle"
    /\ reader_q # << >>
    /\ Head(reader_q)[1] = "fatal"
    /\ reader_q' = Tail(reader_q)
    /\ log_frame' = [log_frame EXCEPT !["proc"].at = "append", !["proc"].text = FatalEntry]
    /\ UNCHANGED << LogFrame, paused, stop_event, proc_pc, refresher_pc,
                    preview, key_frame, logs, logs_text >>

\* stop_event.set() after the call, and back to the head of the loop
FatalStop ==
    /\ proc_pc = "get"
    /\ log_frame["proc"].at = "returned"
    /\ stop_event' = TRUE
    /\ proc_pc' = "loop"
    /\ UNCHANGED << LogFrame, paused, reader_q, refresher_pc,
                    preview, key_frame, logs, log_frame, logs_text >>

\* "p": state.paused = not state.paused, then the call of append_log
PauseToggle ==
    /\ app_running
    /\ key_frame = [key |-> "p", at |-> "start"]
    /\ paused' = ~paused
    /\ key_frame' = [key_frame EXCEPT !.at = "end"]
    /\ log_frame' = [log_frame EXCEPT !["ui"].at = "append", !["ui"].text = PauseEntry]
    /\ UNCHANGED << LogFrame, stop_event, reader_q, proc_pc, refresher_pc,
                    preview, logs, logs_text >>

\* while not stop_event.is_set() of refresher_loop
RenderTest ==
    /\ refresher_pc = "loop"
    /\ refresher_pc' = IF stop_event THEN "done" ELSE "render"
    /\ UNCHANGED << LogFrame, paused, stop_event, reader_q, proc_pc,
                    preview, key_frame, logs, log_frame, logs_text >>

\* the body of the loop: the preview and state.logs[-300:] go to the screen
RenderTexts ==
    /\ refresher_pc = "render"
    /\ LET r == FormatPreviewLines(codigo, anio_inicio, measurements, PREVIEW_MAX_LINES)
       IN  preview' = IF r.ok THEN r.lines ELSE preview
    /\ logs_text' = LastOf(logs, LOG_VIEW)
    /\ refresher_pc' = "loop"
    /\ UNCHANGED << LogFrame, paused, stop_event, reader_q, proc_pc,
                    key_frame, logs, log_frame >>

NextLog ==
    \/ FatalTake
    \/ FatalStop
    \/ PauseToggle
    \/ \E t \in {"proc", "ui"} : LogAppend(t)
    \/ \E t \in {"proc", "ui"} : LogTest(t)
    \/ \E t \in {"proc", "ui"} : LogSlice(t)
    \/ \E t \in {"proc", "ui"} : LogStore(t)
    \/ RenderTest
    \/ RenderTexts

SpecLog == InitLog /\ [][NextLog]_vars

-----------------------------------------------------------------------------
(* Properties of the engine.                                                *)

\* The step in which the processor takes a "reading" event off the queue.
TakesReading ==
    /\ proc_pc = "get"
    /\ reader_q # << >>
    /\ Head(reader_q)[1] = "reading"
    /\ reader_q' = Tail(reader_q)

\* The scaled value of the reading at the head of the queue.
HeadMil == CurrentMil(Head(reader_q)[2])

\* C1: while the scaled readings processed so far are strictly increasing
\* and were all processed unpaused, with nothing undone, the first reading
\* gave no measurement and each later one gave exactly one, equal to its
\* scaled value minus the scaled value before it (the baseline then): there
\* are as many measurements as readings after the first.
C1_IncreasingReadings ==
    h_run.ok =>
        /\ Len(measurements) = Max(Len(h_run.hist) - 1, 0)
        /\ \A i \in 1..Len(measurements) :
               measurements[i] = h_run.hist[i + 1] - h_run.hist[i]

C1_Witness ==
    /\ h_run.ok
    /\ Len(h_run.hist) = 3
    /\ Len(measurements) = 2

\* C2 as stated: a reading below the baseline, processed in the Referenced
\* state, leaves the measurements as they are, makes its scaled value the
\* baseline and does not touch the stop signal.
C2_Original ==
    [][ ( /\ TakesReading
          /\ ~waiting_reference
          /\ last_cumulative # None
          /\ HeadMil < Val(last_cumulative) )
        => ( /\ measurements' = measurements
             /\ last_cumulative' = Some(HeadMil)
             /\ stop_event' = stop_event ) ]_vars

\* C2 amended: the same, for a reading processed while not paused.
C2_Resync ==
    [][ ( /\ TakesReading
          /\ ~waiting_reference
          /\ ~paused
          /\ last_cumulative # None
          /\ HeadMil < Val(last_cumulative) )
        => ( /\ measurements' = measurements
             /\ last_cumulative' = Some(HeadMil)
             /\ stop_event' = stop_event ) ]_vars

C2_Witness ==
    /\ h_out = "resync"
    /\ measurements # << >>
    /\ ~stop_event

\* C3 as stated: a measurement is appended, undone at once, and the same
\* cumulative reading arrives again: the measurements are those before the
\* undo.
C3_Original ==
    h_redo.phase = "same" => measurements = h_redo.seq

\* C3 amended: a measurement is appended, undone at once, then the reading
\* the ring started from arrives (a resync) and then the same cumulative
\* reading again: the measurements are those before the undo.
C3_Redo ==
    h_redo.phase = "redone" => measurements = h_redo.seq

C3_Witness ==
    /\ h_redo.phase = "redone"
    /\ Len(measurements) = 2

\* C9 as stated: a reading processed while paused in the Referenced state
\* changes neither the baseline nor the measurements, and the first
\* measurement after the resume is the scaled reading minus the baseline
\* held when the pause began.
C9_Original ==
    [][ /\ (TakesReading /\ ~waiting_reference /\ paused)
            => UNCHANGED << last_cumulative, measurements >>
        /\ h_pz'.phase = "measured"
            => h_pz'.m = h_pz'.cur - h_pz'.base ]_vars

\* C9 amended: the same, when no reading below the baseline was processed
\* between the resume and that measurement.
C9_PauseKeepsBaseline ==
    [][ /\ (TakesReading /\ ~waiting_reference /\ paused)
            => UNCHANGED << last_cumulative, measurements >>
        /\ (h_pz'.phase = "measured" /\ ~h_pz'.resync)
            => h_pz'.m = h_pz'.cur - h_pz'.base ]_vars

C9_Witness ==
    /\ h_pz.phase = "measured"
    /\ h_pz.discarded
    /\ ~h_pz.resync

\* C10: the reading processed in AwaitingReference, paused or not, makes
\* its scaled value the baseline, ends AwaitingReference and measures
\* nothing; AwaitingReference, once left, is never entered again.
C10_FirstReading ==
    [][ /\ (TakesReading /\ waiting_reference)
            => /\ last_cumulative' = Some(HeadMil)
               /\ ~waiting_reference'
               /\ measurements' = measurements
        /\ ~waiting_reference => ~waiting_reference' ]_vars

C10_Witness ==
    /\ h_out = "ref"
    /\ paused
    /\ ~waiting_reference
    /\ last_cumulative # None
    /\ measurements = << >>

-----------------------------------------------------------------------------
(* Properties of the shutdown and of the reader.                            *)

\* The step in which the processor takes a "fatal" event off the queue.
TakesFatal ==
    /\ proc_pc = "get"
    /\ reader_q # << >>
    /\ Head(reader_q)[1] = "fatal"
    /\ reader_q' = Tail(reader_q)

\* C11: the step that processes a fatal event sets stop_event; stop_event,
\* once set, stays set; and once a fatal event was processed the processor
\* takes no reading event any more, so none changes the measurements or the
\* baseline.
C11_FatalStops ==
    [][ /\ TakesFatal => stop_event'
        /\ stop_event => stop_event'
        /\ h_out = "fatal" =>
               /\ ~TakesReading
               /\ h_out' = "fatal" ]_vars

C11_Witness ==
    /\ h_out = "fatal"
    /\ stop_event
    /\ proc_pc = "done"
    /\ measurements # << >>
    /\ ser = "closed"

\* a line that holds no digit: the pattern needs one
NoNumber(raw) == \A i \in 1..Len(raw) : ~IsDigit(raw[i])

NoNumberLines == {raw \in AllLines : NoNumber(raw)}

\* C12: the reader puts nothing on the queue once it has ended, and it ends
\* in the step that puts a fatal event there, so a run has at most one fatal
\* event and nothing after it; a reader that has ended has closed the port
\* if it had opened it; a step that changes the queue is not the turn of
\* the loop for a line without a number.
C12_ReaderContract ==
    [][ /\ Len(reader_q') > Len(reader_q) =>
               /\ reader_pc # "done"
               /\ reader_q'[Len(reader_q')][1] = "fatal" => reader_pc' = "done"
        /\ reader_pc' = "done" => ser' # "open"
        /\ (reader_pc' = "done" /\ ser = "open") => ser' = "closed"
        /\ reader_q' # reader_q =>
               \A raw \in NoNumberLines : ~ReaderLine(raw, MaxMeas)
      ]_vars

C12_Witness ==
    /\ reader_pc = "done"
    /\ ser = "closed"
    /\ reader_q # << >>
    /\ reader_q[Len(reader_q)][1] = "fatal"

\* C13: once stop_event is set, the reader, the processor and the refresher
\* all come to their end, whatever is left on the queue.
C13_LoopsTerminate ==
    stop_event ~> (reader_pc = "done" /\ proc_pc = "done" /\ refresher_pc = "done")

C13_Witness ==
    /\ stop_event
    /\ reader_pc = "done"
    /\ proc_pc = "done"
    /\ refresher_pc = "done"
    /\ reader_q # << >>
    /\ Head(reader_q)[1] = "reading"

-----------------------------------------------------------------------------
(* Properties of the commands.                                              *)

\* the smallest multiple of the step above y
NextMultipleAbove(y) == CHOOSE t \in (y + 1)..(y + sound_step) : t % sound_step = 0

\* the year the threshold is counted from: the last measured year, or
\* anio when nothing is measured
LastYear(anio, n) == IF n > 0 THEN anio + n - 1 ELSE anio

\* C14: enter on an empty buffer or on one that is no number, and escape,
\* end the year entry and change nothing else: anio_inicio, the threshold,
\* the measurements, the baseline, the pause flag and the rest of the state
\* are as before.
C14_RejectedEdit ==
    [][ ( \/ /\ h_cmd' \in {"set", "rejected"}
             /\ \/ Strip(awaiting_year.buf) = << >>
                \/ ~IsIntText(Strip(awaiting_year.buf))
          \/ h_cmd' = "cancelled" )
        => /\ awaiting_year.on
           /\ awaiting_year' = [on |-> FALSE, buf |-> << >>]
           /\ UNCHANGED << anio_inicio, next_sound_year, measurements,
                           last_cumulative, paused, waiting_reference,
                           year_counter, codigo, stop_event, app_running,
                           reader_q, file, preview >> ]_vars

C14_Witness ==
    /\ h_cmd = "rejected"
    /\ ~awaiting_year.on
    /\ measurements # << >>
    /\ paused

\* C15: enter on a buffer that holds a number y makes y the start year and
\* the threshold the smallest multiple of the step above the last measured
\* year counted from y (above y when nothing is measured); the measurements,
\* the baseline, waiting_reference and the pause flag are as before.
C15_SetStartYear ==
    [][ h_cmd' = "set"
        => /\ IsIntText(Strip(awaiting_year.buf))
           /\ anio_inicio' = IntVal(Strip(awaiting_year.buf))
           /\ next_sound_year' =
                  NextMultipleAbove(LastYear(anio_inicio', Len(measurements)))
           /\ UNCHANGED << measurements, last_cumulative, waiting_reference,
                           paused, year_counter, codigo >> ]_vars

C15_Witness ==
    /\ h_cmd = "set"
    /\ anio_inicio = 2
    /\ next_sound_year = 10
    /\ Len(measurements) = 2

\* C16: r with a measurement held removes the newest one and no other, and
\* makes the threshold the smallest multiple of the step above the last year
\* still measured; the baseline, anio_inicio and the pause flag are as
\* before.  r with no measurement held changes nothing.
C16_UndoLast ==
    [][ h_cmd' \in {"undone", "nothing"}
        => /\ IF measurements # << >>
              THEN /\ measurements' = SubSeq(measurements, 1, Len(measurements) - 1)
                   /\ next_sound_year' =
                          NextMultipleAbove(LastYear(anio_inicio, Len(measurements')))
              ELSE UNCHANGED << measurements, next_sound_year, year_counter >>
           /\ UNCHANGED << last_cumulative, anio_inicio, paused, waiting_reference,
                           codigo, awaiting_year, stop_event, reader_q,
                           file, preview >> ]_vars

C16_Witness ==
    /\ h_cmd = "undone"
    /\ Len(measurements) = 1
    /\ last_cumulative # None
    /\ paused

-----------------------------------------------------------------------------
(* Properties of the threshold tracker.                                     *)

\* The multiples of the step in lo+1..hi, in increasing order.
RECURSIVE MultiplesIn(_, _)
MultiplesIn(lo, hi) ==
    IF hi <= lo THEN << >>
    ELSE IF hi % sound_step = 0 THEN Append(MultiplesIn(lo, hi - 1), hi)
    ELSE MultiplesIn(lo, hi - 1)

NoRepeat(s) == \A i, j \in 1..Len(s) : i # j => s[i] # s[j]

\* C4: with no undo and no year edit, the alerts so far are exactly the
\* multiples t of the step with anio_inicio < t <= last measured year, once
\* each, in increasing order; one measurement beeps at most once.
C4_AlertsAtThresholds ==
    /\ h_clean =>
           h_alerts = MultiplesIn(anio_inicio, anio_inicio + Len(measurements) - 1)
    /\ h_nfired <= 1

C4_Witness ==
    /\ h_clean
    /\ Len(h_alerts) = 2
    /\ h_nfired = 1

\* C5 as stated: after any readings, undos and year edits the next threshold
\* is above the last year that beeped.
C5_Original ==
    h_lastfired # None => next_sound_year > Val(h_lastfired)

\* C5 amended: with no undo and no year edit, the next threshold is above
\* the last year that beeped and no year has beeped twice.
C5_NextAboveFired ==
    h_clean =>
        /\ h_lastfired # None => next_sound_year > Val(h_lastfired)
        /\ NoRepeat(h_alerts)

C5_Witness ==
    /\ h_clean
    /\ h_lastfired # None
    /\ Len(h_alerts) = 2
    /\ next_sound_year > Val(h_lastfired)

-----------------------------------------------------------------------------
(* Properties of the encoder.  They speak of the file the last save wrote   *)
(* and of the preview last rendered; in SpecEnc both are made from the      *)
(* measurements the state holds.                                            *)

\* all the values of the lines, in order
RECURSIVE AllVals(_)
AllVals(lines) == IF lines = << >> THEN << >>
                  ELSE Head(lines).vals \o AllVals(Tail(lines))

\* The sentinel is the last entry of the last line and on no other place; no
\* line holds more than 10 entries; a line that holds the sentinel alone
\* comes ten years after a line of exactly 10 values.
SentinelPlaced(lines) ==
    LET last == lines[Len(lines)]
        all == AllVals(lines)
    IN  /\ \A i \in 1..Len(lines) : Len(lines[i].vals) <= 10
        /\ all # << >>
        /\ all[Len(all)] = Sentinel
        /\ \A i \in 1..(Len(all) - 1) : all[i] # Sentinel
        /\ last.vals = << Sentinel >> =>
               /\ Len(lines) >= 2
               /\ Len(lines[Len(lines) - 1].vals) = 10
               /\ last.anio = lines[Len(lines) - 1].anio + 10

\* C6: for a site code of 1 to 8 characters and at least one measurement,
\* saving and rendering succeed, and in the file and in the preview the
\* sentinel follows the last value: alone on a new line ten years on when
\* the last line of values holds 10, on that line when it holds fewer; no
\* line holds more than 10 entries.
C6_SentinelPlacement ==
    (measurements # << >> /\ Len(codigo) \in 1..8) =>
        /\ ~file.error
        /\ file.lines # << >> => SentinelPlaced(file.lines)
        /\ preview # << >> => SentinelPlaced(preview)

\* C7: with no measurement the file is one line of 18 characters: the site
\* code left-justified in columns 1-8, anio_inicio right-justified in
\* columns 9-12, and " -9999" in columns 13-18.
C7_EmptySeries ==
    (measurements = << >> /\ file.lines # << >>) =>
        /\ Len(file.lines) = 1
        /\ LET text == file.lines[1].text
           IN  /\ Len(text) = 18
               /\ SubSeq(text, 1, 8) = codigo \o Spaces(8 - Len(codigo))
               /\ SubSeq(text, 9, 12) =
                      Spaces(4 - Len(IntStr(anio_inicio))) \o IntStr(anio_inicio)
               /\ SubSeq(text, 13, 18) = << " ", "-", "9", "9", "9", "9" >>

\* the lines of values: the lines less the sentinel, and less the line the
\* sentinel stood alone on
DataRows(lines) ==
    LET last == lines[Len(lines)]
        front == SubSeq(lines, 1, Len(lines) - 1)
        vals == SubSeq(last.vals, 1, Len(last.vals) - 1)
    IN  IF vals = << >> THEN front
        ELSE Append(front, [anio |-> last.anio, vals |-> vals])

\* the next multiple of 10 above y
NextDecade(y) == CHOOSE d \in (y + 1)..(y + 10) : d % 10 = 0

\* C8: the lines of values of the file hold the measurements in order; the
\* first starts at anio_inicio and holds min(n, next decade - anio_inicio)
\* values; each later one starts at a multiple of 10, ten years after the
\* decade of the line before it; every line but the first and the last
\* holds exactly 10 values, and none more than 10.
C8_RowsPartition ==
    (measurements # << >> /\ file.lines # << >>) =>
        LET rows == DataRows(file.lines)
            n == Len(measurements)
        IN  /\ rows # << >>
            /\ AllVals(rows) = measurements
            /\ rows[1].anio = anio_inicio
            /\ Len(rows[1].vals) = Min(n, NextDecade(anio_inicio) - anio_inicio)
            /\ \A i \in 2..Len(rows) :
                   /\ rows[i].anio % 10 = 0
                   /\ rows[i].anio = NextDecade(rows[i - 1].anio)
                   /\ Len(rows[i].vals) \in 1..10
            /\ \A i \in 2..(Len(rows) - 1) : Len(rows[i].vals) = 10

C8_Witness ==
    /\ anio_inicio = 1703
    /\ Len(measurements) = 21
    /\ Len(file.lines) = 3
    /\ Len(file.lines[1].vals) = 7
    /\ file.lines[2].anio = 1710
    /\ Len(file.lines[2].vals) = 10
    /\ file.lines[3].anio = 1720

\* the texts of the lines
Texts(lines) == [i \in 1..Len(lines) |-> lines[i].text]

\* the last k of the rows, all of them when k is at least their number
LastRows(rows, k) == SubSeq(rows, Max(1, Len(rows) - k + 1), Len(rows))

\* the preview of max_lines rows is the last max_lines rows of the file
\* saved from the same state, and rendering raises only when saving does
PreviewIsTail(max_lines) ==
    LET p == FormatPreviewLines(codigo, anio_inicio, measurements, max_lines)
    IN  /\ p.ok = ~file.error
        /\ file.lines # << >> =>
               /\ p.ok
               /\ Texts(p.lines) = LastRows(Texts(file.lines), max_lines)

FieldInt(field) ==
    LET tok == Strip(field)
    IN  IF IsIntText(tok) THEN Some(IntVal(tok)) ELSE None

Chunks(s, w) ==
    [i \in 1..((Len(s) + w - 1) \div w) |-> SubSeq(s, (i - 1) * w + 1, Min(i * w, Len(s)))]

RowByColumns(text) ==
    LET fields == Chunks(SubSeq(text, 13, Len(text)), 6)
    IN  [anio |-> FieldInt(SubSeq(text, 9, Min(12, Len(text)))),
         vals |-> [i \in 1..Len(fields) |-> FieldInt(fields[i])]]

\* A row read back by its blank-separated tokens, as escribir_tucson itself
\* reads its last row: the code, the year, then the values.
RowByTokens(text) ==
    LET toks == Split(text)
    IN  [anio |-> IF Len(toks) >= 2 /\ IsIntText(toks[2]) THEN Some(IntVal(toks[2])) ELSE None,
         vals |-> [i \in 1..Max(0, Len(toks) - 2) |->
                      IF IsIntText(toks[i + 2]) THEN Some(IntVal(toks[i + 2])) ELSE None]]

RECURSIVE RowVals(_)
RowVals(rows) == IF rows = << >> THEN << >> ELSE Head(rows).vals \o RowVals(Tail(rows))

\* The rows parsed back: the start year is the year of the first row, the
\* measurements are the values up to the sentinel.  ok is FALSE when a field
\* is not a number or no sentinel is found.
ParseBack(rows) ==
    LET vals == RowVals(rows)
        sent == {i \in 1..Len(vals) : vals[i] = Some(Sentinel)}
    IN  IF rows = << >> \/ rows[1].anio = None \/ sent = {}
           \/ \E i \in 1..Len(vals) : vals[i] = None
        THEN [ok |-> FALSE, anio |-> 0, meds |-> << >>]
        ELSE LET first == CHOOSE i \in sent : \A j \in sent : i <= j
             IN  [ok |-> TRUE, anio |-> Val(rows[1].anio),
                  meds |-> [i \in 1..(first - 1) |-> Val(vals[i])]]

ParseColumns(texts) == ParseBack([i \in 1..Len(texts) |-> RowByColumns(texts[i])])
ParseTokens(texts) == ParseBack([i \in 1..Len(texts) |-> RowByTokens(texts[i])])

\* encoding what was parsed back, under the same site code, gives the rows
\* of the file again
SameRowsAgain(parsed) ==
    /\ parsed.ok
    /\ LET again == EscribirTucson(codigo, parsed.anio, parsed.meds)
       IN  /\ again.ok
           /\ Texts(again.lines) = Texts(file.lines)

\* C18: for every site code, start year and measurements, the rows of the
\* file, parsed back into the start year and the measurements up to the
\* sentinel (by columns, or else by tokens) and encoded again, are the rows
\* of the file.
C18_Idempotent ==
    file.lines # << >> =>
        \/ SameRowsAgain(ParseColumns(Texts(file.lines)))
        \/ SameRowsAgain(ParseTokens(Texts(file.lines)))

-----------------------------------------------------------------------------
(* Properties of a command that meets a reading.                            *)

\* the reading handled with nothing in between
ReadingOn(st, current_mil) ==
    IF Delta(current_mil, st.base) > 0
    THEN LET ms == Append(st.ms, Delta(current_mil, st.base))
             snd == SoundCheck(st.anio + (Len(ms) - 1), st.nsy)
         IN  [ms |-> ms, base |-> current_mil, anio |-> st.anio, nsy |-> snd.next,
              fired |-> st.fired \o snd.fired]
    ELSE [st EXCEPT !.base = current_mil]

\* the command handled with nothing in between: "r", or enter with a buffer
KeyOn(st, k) ==
    IF k.key = "r"
    THEN IF st.ms # << >>
         THEN [st EXCEPT !.ms = Pop(st.ms),
                         !.nsy = UpdateNextSoundYear(st.anio, Len(st.ms) - 1)]
         ELSE st
    ELSE IF Strip(k.buf) # << >> /\ IsIntText(Strip(k.buf))
         THEN [st EXCEPT !.anio = IntVal(Strip(k.buf)),
                         !.nsy = UpdateNextSoundYear(IntVal(Strip(k.buf)), Len(st.ms))]
         ELSE st

\* the reading and the command are both done
RaceOver == h_race.on /\ proc_pc = "loop" /\ key_frame.at = "end"

\* C19: when a command (undo_last or set_start_year) and the handling of one
\* reading have both finished, however their statements interleaved, the
\* measurements, the baseline, the start year, the threshold and the alerts
\* fired are those of the command after the reading or of the reading after
\* the command.
C19_Serializable ==
    RaceOver =>
        \/ RaceState = KeyOn(ReadingOn(h_race.start, h_race.current_mil), h_race.key)
        \/ RaceState = ReadingOn(KeyOn(h_race.start, h_race.key), h_race.current_mil)

\* no operation is under way: the processor is not inside a measurement and
\* no handler stands before its update of the threshold
BetweenOperations == proc_frame.at = "none" /\ key_frame.at # "update"

\* C20: between operations, after any readings, undos and year edits, the
\* threshold is the smallest multiple of the step above the last measured
\* year (anio_inicio + count - 1), or above anio_inicio when nothing is
\* measured.
C20_NoDrift ==
    BetweenOperations =>
        next_sound_year = NextMultipleAbove(LastYear(anio_inicio, Len(measurements)))

-----------------------------------------------------------------------------
(* Properties of the baseline and of the measurements.                      *)

RECURSIVE SumOf(_)
SumOf(ms) == IF ms = << >> THEN 0 ELSE Head(ms) + SumOf(Tail(ms))

\* C27: every stored measurement is above 0, so none is the sentinel; and
\* while nothing was undone and no reading fell below the baseline (readings
\* may have been paused away), the measurements add up to the baseline less
\* the first reference, and there is none before the first reference.
C27_PositiveSum ==
    /\ \A i \in 1..Len(measurements) : measurements[i] > 0 /\ measurements[i] # Sentinel
    /\ (h_sum.ok /\ h_sum.ref = None) => measurements = << >>
    /\ (h_sum.ok /\ h_sum.ref # None) =>
           /\ last_cumulative # None
           /\ SumOf(measurements) = Val(last_cumulative) - Val(h_sum.ref)

C27_Witness ==
    /\ h_sum.ok
    /\ h_sum.ref # None
    /\ Len(measurements) = 2
    /\ h_pz.discarded
    /\ SumOf(measurements) = Val(last_cumulative) - Val(h_sum.ref)

-----------------------------------------------------------------------------
(* Properties of the rows and their decades.                                *)

\* the entries of a row that are values: all but the sentinel
ValuesOf(row) == SelectSeq(row.vals, LAMBDA v : v # Sentinel)

\* C24 as stated: in the file, the entries of each row, the sentinel
\* counted, stay inside the decade of the row's year:
\* (row_year mod 10) + entries <= 10.
C24_Original ==
    \A i \in 1..Len(file.lines) :
        (file.lines[i].anio % 10) + Len(file.lines[i].vals) <= 10

\* C24: in the file, the values of each row stay inside the decade of the
\* row's year: (row_year mod 10) + values <= 10; the sentinel, which is
\* appended to any last row of fewer than 10 values, may stand one place
\* past the decade: (row_year mod 10) + entries <= 11.
C24_RowsInDecade ==
    \A i \in 1..Len(file.lines) :
        /\ (file.lines[i].anio % 10) + Len(ValuesOf(file.lines[i])) <= 10
        /\ (file.lines[i].anio % 10) + Len(file.lines[i].vals) <= 11

C24_Witness ==
    /\ anio_inicio = 1703
    /\ Len(measurements) = 7
    /\ Len(file.lines) = 1
    /\ Len(file.lines[1].vals) = 8
    /\ file.lines[1].vals[8] = Sentinel

-----------------------------------------------------------------------------
(* Properties of a failing alert.                                           *)

\* C23: when play_beep raises in the measurement that reaches a threshold,
\* the measurement is appended, the baseline is the reading, the threshold
\* is advanced past the year measured, the stop signal is untouched and the
\* processor is back at the head of its loop; the reading after it is
\* measured against that baseline.
C23_BeepFailure ==
    [][ /\ (TakesReading /\ h_beep' = "failed") =>
               /\ last_cumulative # None
               /\ measurements' = Append(measurements, HeadMil - Val(last_cumulative))
               /\ last_cumulative' = Some(HeadMil)
               /\ next_sound_year' > next_sound_year
               /\ next_sound_year' > anio_inicio + Len(measurements') - 1
               /\ stop_event' = stop_event
               /\ proc_pc' = "loop"
        /\ (TakesReading /\ h_beep \in {"failed", "since"} /\ ~paused
              /\ HeadMil > Val(last_cumulative)) =>
               /\ measurements' = Append(measurements, HeadMil - Val(last_cumulative))
               /\ last_cumulative' = Some(HeadMil)
               /\ proc_pc' = "loop"
      ]_vars

C23_Witness ==
    /\ h_beep = "next"
    /\ h_out = "measure"
    /\ ~stop_event
    /\ h_alerts # << >>

-----------------------------------------------------------------------------
(* Properties of saving and leaving.                                        *)

\* C25: when "s" has saved and left and the threads have ended, the file
\* holds exactly the measurements of the state.
C25_SavedAll ==
    (~app_running /\ proc_pc = "done" /\ reader_pc = "done" /\ file.lines # << >>) =>
        AllVals(DataRows(file.lines)) = measurements

-----------------------------------------------------------------------------
(* Properties of the log.                                                   *)

InLog(e, lines) == \E i \in 1..Len(lines) : lines[i] = e

\* the calls of append_log of the processor and of the handler have returned
LogCallsOver == \A t \in {"proc", "ui"} : log_frame[t].at = "returned"

\* C21: when the calls of append_log of the processor and of a key handler,
\* however their statements interleaved, have returned, the log holds at
\* most 1200 entries and holds both entries appended (they are the newest,
\* so the cap does not evict them).
C21_NoEntryLost ==
    LogCallsOver =>
        /\ Len(logs) <= LOG_CAP
        /\ InLog(FatalEntry, logs)
        /\ InLog(PauseEntry, logs)

\* C26: when the processor has logged a fatal event and refresher_loop has
\* ended, the log text on the screen, which the last turn of the loop put
\* there, holds the fatal entry.
C26_FatalShown ==
    (log_frame["proc"].at = "returned" /\ refresher_pc = "done") =>
        InLog(FatalEntry, logs_text)

=============================================================================
